---- MODULE Spec2Model ----
(***************************************************************************)
(* Model of package mpo (donatj/mpo): the MPO writer (EncodeAll,           *)
(* buildMPFSegment, findJFIFEnd) and the MPO reader (DecodeAll with its    *)
(* frame scanner, parseNintendoMetadata).                                  *)
(*                                                                         *)
(* The package keeps no state between calls.  The state of the model is    *)
(* the last call made, its inputs and everything it produced: the bytes    *)
(* written to the io.Writer, the locals of the call, its results.          *)
(***************************************************************************)
EXTENDS Integers, Sequences, FiniteSets, TLC

(***************************************************************************)
(* Byte slices.  A []byte of length n is stored as its length and its      *)
(* non-zero bytes: [n |-> length, m |-> function from the 0-based indexes  *)
(* of the non-zero bytes to their values].  Two slices with the same bytes *)
(* have the same representation.  Indexes are 0-based as in Go.            *)
(***************************************************************************)

\* The []byte{...} literal with the bytes of the sequence q.
Bytes(q) ==
  [n |-> Len(q),
   m |-> [i \in {j \in 0..(Len(q) - 1) : q[j + 1] # 0} |-> q[i + 1]]]

\* make([]byte, k): k zero bytes.
Zeros(k) == [n |-> k, m |-> [i \in {} |-> 0]]

\* len(s)
BLen(s) == s.n

\* s[i]
At(s, i) == IF i \in DOMAIN s.m THEN s.m[i] ELSE 0

\* append(s, t...): what a Write of t after s leaves in a buffer.
Cat(s, t) ==
  [n |-> s.n + t.n,
   m |-> [i \in (DOMAIN s.m) \cup {j + s.n : j \in DOMAIN t.m} |->
            IF i < s.n THEN s.m[i] ELSE t.m[i - s.n]]]

\* s[a:b]
Slice(s, a, b) ==
  [n |-> b - a,
   m |-> [i \in {j - a : j \in {k \in DOMAIN s.m : k >= a /\ k < b}} |->
            s.m[i + a]]]

\* s[i] = v
Patch(s, i, v) ==
  [n |-> s.n,
   m |-> [j \in ((DOMAIN s.m) \ {i}) \cup (IF v = 0 THEN {} ELSE {i}) |->
            IF j = i THEN v ELSE s.m[j]]]

\* bytes.HasPrefix(s, p)
HasPrefix(s, p) == s.n >= p.n /\ Slice(s, 0, p.n) = p

\* binary.Write(b, binary.LittleEndian, uint16(v)) / uint32(v): the bytes written.
LE16(v) == Bytes(<<v % 256, (v \div 256) % 256>>)
LE32(v) ==
  Bytes(<<v % 256, (v \div 256) % 256, (v \div 65536) % 256,
          (v \div 16777216) % 256>>)

\* The little-endian 32-bit / 16-bit value stored at s[i:].
RdLE32(s, i) ==
  At(s, i) + 256 * At(s, i + 1) + 65536 * At(s, i + 2) + 16777216 * At(s, i + 3)
RdLE16(s, i) == At(s, i) + 256 * At(s, i + 1)
\* The big-endian 16-bit value stored at s[i:].
RdBE16(s, i) == 256 * At(s, i) + At(s, i + 1)

(***************************************************************************)
(* Program constants.                                                      *)
(***************************************************************************)
mpojpgMKR == 255
mpojpgSOI == 216
mpojpgEOI == 217
mpojpgAPP2 == 226

tagMPFVersion == 45056
tagNumImages == 45057
tagMPImageList == 45058
typeUNDEFINED == 7
typeLONG == 4
tiffHeaderSize == 8
numTags == 3

flagRepresentative == 536870912
mpTypeBaseline == 196608

SOI == Bytes(<<mpojpgMKR, mpojpgSOI>>)
EOI == Bytes(<<mpojpgMKR, mpojpgEOI>>)

(***************************************************************************)
(* buildMPFSegment (writer.go).                                            *)
(***************************************************************************)

\* The nil []byte returned beside an error.
NilBytes == Zeros(0)

\* Sequences are 1-based: Go's offsets[i] is offsets[i + 1] here.

\* Faulty variant: only a shortage of sizes is refused.
CountsDifferLess(offsets, sizes) == Len(offsets) > Len(sizes)
\* len(offsets) != len(sizes)
CountsDiffer(offsets, sizes) == Len(offsets) # Len(sizes)

\* Faulty variant: the 4 bytes of the next-IFD offset are not counted.
entryOffsetNoNextIFD == tiffHeaderSize + 2 + numTags * 12
\* entryOffset := uint32(tiffHeaderSize + 2 + uint32(numTags)*12 + 4)
entryOffset == tiffHeaderSize + 2 + numTags * 12 + 4

\* Faulty variant: every entry is flagged representative.
MPAttrAllRepresentative(i) == mpTypeBaseline + flagRepresentative
\* attr := mpTypeBaseline; if i == 0 { attr |= flagRepresentative }
\* (the two constants share no bit, so the bitwise or is their sum)
MPAttr(i) ==
  IF i = 0 THEN mpTypeBaseline + flagRepresentative ELSE mpTypeBaseline

\* Byte r (0..15) of the 16 bytes one iteration of the entry loop writes for Go
\* index i: little-endian attr, sizes[i], offsets[i], then Dep-1 and Dep-2 = 0.
MPEntryByte(i, r, offsets, sizes) ==
  LET v == CASE r < 4  -> MPAttr(i)
             [] r < 8  -> sizes[i + 1]
             [] r < 12 -> offsets[i + 1]
             [] OTHER  -> 0
  IN (v \div (256 ^ (r % 4))) % 256

\* What the loop "for i := range offsets" writes: entry i at bytes
\* [16*i, 16*i + 16) of the array, for i = 0 .. len(offsets)-1.
MPEntryArray(offsets, sizes) ==
  LET n == Len(offsets)
  IN [n |-> 16 * n,
      m |-> [p \in {q \in 0..(16 * n - 1) :
                      MPEntryByte(q \div 16, q % 16, offsets, sizes) # 0} |->
               MPEntryByte(p \div 16, p % 16, offsets, sizes)]]

\* Faulty variant: the next-IFD offset is not written.
NextIFDMissing == Zeros(0)
\* binary.Write(b, binary.LittleEndian, uint32(0)): next-IFD offset = 0
NextIFD == LE32(0)

\* Everything written to b before the entry array, in the order of the writes.
MPFHeader(numImg) ==
  LET marker  == Bytes(<<255, 226, 0, 0>>)          \* APP2 marker, length placeholder
      ident   == Bytes(<<77, 80, 70, 0>>)           \* "MPF\0"
      tiff    == Cat(Cat(Bytes(<<73, 73>>), LE16(42)), LE32(8))
      count   == LE16(numTags)
      version == Cat(Cat(Cat(LE16(tagMPFVersion), LE16(typeUNDEFINED)), LE32(4)),
                     Bytes(<<48, 49, 48, 48>>))     \* "0100"
      number  == Cat(Cat(Cat(LE16(tagNumImages), LE16(typeLONG)), LE32(1)),
                     LE32(numImg))
      list    == Cat(Cat(Cat(LE16(tagMPImageList), LE16(typeUNDEFINED)),
                         LE32(numImg * 16)), LE32(entryOffset))
  IN Cat(Cat(Cat(Cat(Cat(Cat(Cat(marker, ident), tiff), count), version), number),
             list), NextIFD)

\* segLen := len(data) - 2; data[2] = byte(segLen >> 8); data[3] = byte(segLen)
PatchLength(data) ==
  LET segLen == BLen(data) - 2
  IN Patch(Patch(data, 2, (segLen \div 256) % 256), 3, segLen % 256)

\* buildMPFSegment(offsets, sizes) ([]byte, error)
buildMPFSegment(offsets, sizes) ==
  IF CountsDiffer(offsets, sizes)
  THEN [data |-> NilBytes, err |-> "offset and size counts differ"]
  ELSE [data |-> PatchLength(Cat(MPFHeader(Len(offsets)),
                                 MPEntryArray(offsets, sizes))),
        err  |-> "nil"]

(***************************************************************************)
(* findJFIFEnd and EncodeAll (writer.go).                                  *)
(***************************************************************************)

\* findJFIFEnd(d []byte) int
findJFIFEnd(d) ==
  IF BLen(d) < 4 \/ At(d, 0) # 255 \/ At(d, 1) # 224       \* APP0?
  THEN 0
  ELSE LET l == At(d, 2) * 256 + At(d, 3)
       IN IF l >= 2 /\ BLen(d) >= l THEN l ELSE 0

\* The loop "for i := 1; i < len(bufs); i++" of EncodeAll, at Go index i:
\* offsets[i] = filePos - posEndian; filePos += uint32(len(bufs[i])).
\* (All values stay far below 2^32 here: the uint32 conversions change nothing.)
RECURSIVE OffsetLoop(_, _, _, _, _)
OffsetLoop(bufs, posEndian, offsets, filePos, i) ==
  IF i >= Len(bufs) THEN offsets
  ELSE OffsetLoop(bufs, posEndian,
                  [offsets EXCEPT ![i + 1] = filePos - posEndian],
                  filePos + BLen(bufs[i + 1]), i + 1)

\* Faulty variant: offsets measured from the start of the file.
OffsetsFromFileStart(bufs, mpfSize, jfifLen) ==
  [OffsetLoop(bufs, 0, [i \in 1..Len(bufs) |-> 0],
              BLen(bufs[1]) + mpfSize, 1) EXCEPT ![1] = 0]
\* Faulty variant: the loop starts at i = 0 and offsets[0] is not reset.
OffsetsLoopFromZero(bufs, mpfSize, jfifLen) ==
  OffsetLoop(bufs, 2 + jfifLen + 8, [i \in 1..Len(bufs) |-> 0], mpfSize, 0)
\* posEndian, offsets and filePos of EncodeAll, then offsets[0] = 0.
\* Element i + 1 of the result is Go's offsets[i].
Offsets(bufs, mpfSize, jfifLen) ==
  LET posEndian == 2 + jfifLen + 8                 \* SOI + JFIF + 8 bytes
      offsets   == [i \in 1..Len(bufs) |-> 0]
      filePos   == BLen(bufs[1]) + mpfSize         \* size of first JPEG + MPF
  IN [OffsetLoop(bufs, posEndian, offsets, filePos, 1) EXCEPT ![1] = 0]

\* bufs[1], bufs[2], ... written one after the other (Go indexes from).
RECURSIVE WriteFrom(_, _, _)
WriteFrom(out, bufs, i) ==
  IF i > Len(bufs) THEN out ELSE WriteFrom(Cat(out, bufs[i]), bufs, i + 1)

\* The Write calls of EncodeAll on an empty writer: SOI, the JFIF bytes when
\* jfifLen > 0, the segment, the rest of the first JPEG, the remaining images.
WriteStream(first, jfifLen, mpfSeg, bufs) ==
  LET soi      == Slice(first, 0, 2)
      jfif     == IF jfifLen > 0 THEN Cat(soi, Slice(first, 2, 2 + jfifLen)) ELSE soi
      seg      == Cat(jfif, mpfSeg)
      startRest == 2 + jfifLen
      rest     == Cat(seg, Slice(first, startRest, BLen(first)))
  IN WriteFrom(rest, bufs, 2)

\* Before any call of EncodeAll: nothing computed, nothing written.
NoEnc ==
  [images |-> 0, bufs |-> << >>, sizes |-> << >>, offsets |-> << >>, jfifLen |-> 0,
   mpfSeg |-> NilBytes, w |-> Zeros(0), err |-> "nil"]

\* Faulty variant: the empty MPO is not refused.
NoImagesNever(bufs) == FALSE
\* len(bufs) == 0
NoImages(bufs) == Len(bufs) = 0

\* enc[i] = [err, b]: the result of jpeg.Encode for one image, an error or
\* the bytes b.
\* EncodeAll(w, m, o) on an empty writer, enc[i] being what jpeg.Encode returns
\* for m.Image[i-1].  The result holds len(m.Image), the locals and what w
\* received.  first := bufs[0] panics on an empty bufs.
EncodeAll(enc) ==
  LET n     == Len(enc)
      bufs  == [i \in 1..n |-> enc[i].b]
      sizes == [i \in 1..n |-> BLen(enc[i].b)]
      none  == [NoEnc EXCEPT !.images = n]
  IN IF \E i \in 1..n : enc[i].err
     THEN [none EXCEPT !.err = "jpeg: encode failed"]
     ELSE IF NoImages(bufs)
     THEN [none EXCEPT !.err = "no images to encode"]
     ELSE IF n = 0
     THEN [none EXCEPT !.err = "panic: index out of range"]
     ELSE IF ~HasPrefix(bufs[1], SOI)
     THEN [none EXCEPT !.bufs = bufs, !.sizes = sizes,
                       !.err = "first image missing SOI"]
     ELSE LET first   == bufs[1]
              tmp     == buildMPFSegment([i \in 1..n |-> 0], sizes)
              mpfSize == BLen(tmp.data)
              jfifLen == findJFIFEnd(Slice(first, 2, BLen(first)))
              offsets == Offsets(bufs, mpfSize, jfifLen)
              seg     == buildMPFSegment(offsets, sizes)
          IN IF seg.err # "nil"
             THEN [none EXCEPT !.bufs = bufs, !.sizes = sizes, !.offsets = offsets,
                               !.jfifLen = jfifLen, !.err = seg.err]
             ELSE [images |-> n, bufs |-> bufs, sizes |-> sizes, offsets |-> offsets,
                   jfifLen |-> jfifLen, mpfSeg |-> seg.data,
                   w |-> WriteStream(first, jfifLen, seg.data, bufs),
                   err |-> "nil"]

(***************************************************************************)
(* The reader (DecodeAll, parseNintendoMetadata).                          *)
(***************************************************************************)

\* The index of the first byte 0xFF of d at or after index from, len(d) if none.
NextMKR(d, from) ==
  LET S == {i \in DOMAIN d.m : i >= from /\ d.m[i] = mpojpgMKR}
  IN IF S = {} THEN BLen(d) ELSE CHOOSE i \in S : \A j \in S : i <= j

\* uint8 arithmetic of depth++ and depth--.
IncU8(x) == (x + 1) % 256
DecU8(x) == (x + 255) % 256

\* Faulty variant: the byte read after 0xFF is not counted as read.
locAfterMarkerKept(loc) == loc + 1
\* loc after the two reads of an iteration that starts on 0xFF:
\* loc += int64(i1); loc += int64(i2)
locAfterMarker(loc) == loc + 2

\* The scan loop of DecodeAll from the state s = [loc, depth, imgStart,
\* sectReaders]; r.Read returns the byte at loc, or io.EOF at the end of d.
\* An iteration that reads a byte other than 0xFF only adds 1 to loc: the run of
\* such iterations up to the next 0xFF (or the end) is taken in one step.
\* A section reader is kept as the arguments of io.NewSectionReader(r, off, n).
RECURSIVE ScanLoop(_, _)
ScanLoop(d, s) ==
  IF s.loc >= BLen(d) THEN s                                \* io.EOF: break
  ELSE IF At(d, s.loc) # mpojpgMKR
  THEN ScanLoop(d, [s EXCEPT !.loc = NextMKR(d, s.loc + 1)])
  ELSE IF s.loc + 1 >= BLen(d)
  THEN [s EXCEPT !.loc = s.loc + 1]                         \* io.EOF: break
  ELSE LET loc == locAfterMarker(s.loc)
           c   == At(d, s.loc + 1)
       IN IF c = mpojpgSOI
          THEN ScanLoop(d, [s EXCEPT !.loc = loc,
                              !.imgStart = IF s.depth = 0 THEN loc - 2 ELSE @,
                              !.depth = IncU8(@)])
          ELSE IF c = mpojpgEOI
          THEN ScanLoop(d, [s EXCEPT !.loc = loc,
                              !.depth = DecU8(@),
                              !.sectReaders =
                                 IF DecU8(s.depth) = 0
                                 THEN Append(@, [off |-> s.imgStart, n |-> loc])
                                 ELSE @])
          ELSE ScanLoop(d, [s EXCEPT !.loc = loc])

\* One iteration of the scan loop of DecodeAll from the state s, for
\* s.loc < len(d): the read of a byte and, after 0xFF, of a second one.
ScanIteration(d, s) ==
  IF At(d, s.loc) # mpojpgMKR THEN [s EXCEPT !.loc = s.loc + 1]
  ELSE IF s.loc + 1 >= BLen(d) THEN [s EXCEPT !.loc = s.loc + 1]  \* io.EOF: break
  ELSE LET loc == locAfterMarker(s.loc)
           c   == At(d, s.loc + 1)
       IN IF c = mpojpgSOI
          THEN [s EXCEPT !.loc = loc,
                         !.imgStart = IF s.depth = 0 THEN loc - 2 ELSE @,
                         !.depth = IncU8(@)]
          ELSE IF c = mpojpgEOI
          THEN [s EXCEPT !.loc = loc,
                         !.depth = DecU8(@),
                         !.sectReaders =
                            IF DecU8(s.depth) = 0
                            THEN Append(@, [off |-> s.imgStart, n |-> loc])
                            ELSE @]
          ELSE [s EXCEPT !.loc = loc]

\* Faulty variant: at the end of the buffer a frame still open is emitted too.
ScanEmitOpen(d) ==
  LET s == ScanLoop(d, [loc |-> 0, depth |-> 0, imgStart |-> 0, sectReaders |-> << >>])
  IN IF s.depth > 0
     THEN [s EXCEPT !.sectReaders = Append(@, [off |-> s.imgStart, n |-> s.loc])]
     ELSE s
\* The frame scanner of DecodeAll on the bytes d.
Scan(d) ==
  ScanLoop(d, [loc |-> 0, depth |-> 0, imgStart |-> 0, sectReaders |-> << >>])

\* The bytes a section reader io.NewSectionReader(r, off, n) over d delivers:
\* those of [off, off + n), cut at the end of d.
SectionBytes(d, sr) ==
  LET end == IF sr.off + sr.n > BLen(d) THEN BLen(d) ELSE sr.off + sr.n
  IN Slice(d, sr.off, end)

\* segLen := int(data[pos+2])<<8 | int(data[pos+3])
segLenAt(data, pos) == At(data, pos + 2) * 256 + At(data, pos + 3)

\* data[pos] == mpojpgMKR && pos+1 < len(data) && data[pos+1] == mpojpgAPP2
IsAPP2(data, pos) ==
  At(data, pos) = mpojpgMKR /\ pos + 1 < BLen(data) /\ At(data, pos + 1) = mpojpgAPP2

\* segLen < 2 || pos+2+segLen > len(data)
Unusable(data, pos, segLen) == segLen < 2 \/ pos + 2 + segLen > BLen(data)

\* pos+8 <= len(data) && data[pos+4..pos+7] == "NINT"
IsNINT(data, pos) ==
  /\ pos + 8 <= BLen(data)
  /\ At(data, pos + 4) = 78 /\ At(data, pos + 5) = 73
  /\ At(data, pos + 6) = 78 /\ At(data, pos + 7) = 84

\* dataStart := pos + 8
dataStart(pos) == pos + 8

\* dataEnd := pos + 2 + segLen; if dataEnd > len(data) { dataEnd = len(data) }
dataEnd(data, pos, segLen) ==
  IF pos + 2 + segLen > BLen(data) THEN BLen(data) ELSE pos + 2 + segLen

\* The return on a tag match at pos: &NintendoMetadata{Raw: raw} with raw a
\* copy of data[dataStart:dataEnd], or the panic of make([]byte, n) with n < 0.
NintendoMatch(data, pos, segLen) ==
  IF dataEnd(data, pos, segLen) - dataStart(pos) < 0
  THEN [kind |-> "panic", raw |-> NilBytes]
  ELSE [kind |-> "raw",
        raw |-> Slice(data, dataStart(pos), dataEnd(data, pos, segLen))]

\* Faulty variant: the marker bytes are not counted.
skipSegmentShort(pos, segLen) == pos + segLen
\* pos += 2 + segLen
skipSegment(pos, segLen) == pos + 2 + segLen

\* parseNintendoMetadata(data) from position pos: [kind |-> "nil"] for a nil
\* result, [kind |-> "raw", raw |-> bytes] for &NintendoMetadata{Raw: raw},
\* [kind |-> "panic"] when make([]byte, dataEnd-dataStart) gets a negative length.
\* An iteration at a byte other than 0xFF only adds 1 to pos: the run of such
\* iterations up to the next 0xFF (or the loop bound) is taken in one step.
RECURSIVE NintendoLoop(_, _)
NintendoLoop(data, pos) ==
  LET len == BLen(data)
      absent == [kind |-> "nil", raw |-> NilBytes]
  IN IF ~(pos < len - 8) THEN absent
     ELSE IF At(data, pos) # mpojpgMKR
     THEN NintendoLoop(data, NextMKR(data, pos + 1))
     ELSE IF ~IsAPP2(data, pos)
     THEN NintendoLoop(data, pos + 1)
     ELSE IF pos + 3 >= len THEN absent
     ELSE LET segLen == segLenAt(data, pos)
          IN IF Unusable(data, pos, segLen)
             THEN NintendoLoop(data, pos + 1)
             ELSE IF IsNINT(data, pos)
             THEN NintendoMatch(data, pos, segLen)
             ELSE NintendoLoop(data, skipSegment(pos, segLen))

\* Faulty variant: a placeholder without bytes is returned in place of nil.
parseNintendoMetadataPlaceholder(data) ==
  IF NintendoLoop(data, 0).kind = "nil"
  THEN [kind |-> "raw", raw |-> Zeros(0)]
  ELSE NintendoLoop(data, 0)
parseNintendoMetadata(data) == NintendoLoop(data, 0)

\* parseNintendoMetadata one iteration at a time.  e = [pos, iters, kind, raw]:
\* the cursor, the iterations done, and what the function returned ("loop"
\* while it has not).  One step is the loop test "pos < len(data)-8" and,
\* when it holds, one pass of the loop body.
NintendoStart == [pos |-> 0, iters |-> 0, kind |-> "loop", raw |-> NilBytes]
NintendoIteration(data, e) ==
  LET pos == e.pos
      ret(r) == [e EXCEPT !.iters = @ + 1, !.kind = r.kind, !.raw = r.raw]
      goto(q) == [e EXCEPT !.iters = @ + 1, !.pos = q]
  IN IF ~(pos < BLen(data) - 8) THEN [e EXCEPT !.kind = "nil"]   \* return nil
     ELSE IF ~IsAPP2(data, pos) THEN goto(pos + 1)
     ELSE IF pos + 3 >= BLen(data) THEN ret([kind |-> "nil", raw |-> NilBytes])
     ELSE LET segLen == segLenAt(data, pos)
          IN IF Unusable(data, pos, segLen) THEN goto(pos + 1)
             ELSE IF IsNINT(data, pos) THEN ret(NintendoMatch(data, pos, segLen))
             ELSE goto(skipSegment(pos, segLen))

\* DecodeAll(rr) on a reader over the bytes d.  codecOK: whether jpeg.Decode
\* accepts the sections it is handed (the codec is outside the package).  A
\* decoded image is kept as the bytes it was decoded from.
DecodeAll(d, codecOK) ==
  LET s      == Scan(d)
      images == [k \in 1..Len(s.sectReaders) |-> SectionBytes(d, s.sectReaders[k])]
      nin    == IF BLen(d) > 0 THEN parseNintendoMetadata(d)
                ELSE [kind |-> "nil", raw |-> NilBytes]
      base   == [loc |-> s.loc, depth |-> s.depth, imgStart |-> s.imgStart,
                 sectReaders |-> s.sectReaders]
  IN IF Len(s.sectReaders) > 0 /\ ~codecOK
     THEN [scan |-> base, Image |-> << >>, Nintendo |-> [kind |-> "nil", raw |-> NilBytes],
           err |-> "jpeg: decode failed"]
     ELSE IF nin.kind = "panic"
     THEN [scan |-> base, Image |-> << >>, Nintendo |-> nin, err |-> "panic"]
     ELSE [scan |-> base, Image |-> images, Nintendo |-> nin, err |-> "nil"]

\* errors.New("no images found in mpo image")
ErrNoImages == "no images found in mpo image"

\* Decode(r): [val |-> the image returned, err |-> the error returned].
Decode(d, codecOK) ==
  LET all == DecodeAll(d, codecOK)
  IN IF all.err # "nil" THEN [val |-> NilBytes, err |-> all.err]
     ELSE IF Len(all.Image) < 1 THEN [val |-> NilBytes, err |-> ErrNoImages]
     ELSE [val |-> all.Image[1], err |-> "nil"]

\* DecodeConfig(r): [val |-> the image whose colour model and bounds make the
\* image.Config returned (nil for image.Config{}), err |-> the error returned].
DecodeConfig(d, codecOK) ==
  LET all == DecodeAll(d, codecOK)
  IN IF all.err # "nil" THEN [val |-> NilBytes, err |-> all.err]
     ELSE IF Len(all.Image) < 1 THEN [val |-> NilBytes, err |-> ErrNoImages]
     ELSE [val |-> all.Image[1], err |-> "nil"]

(***************************************************************************)
(* ConvertToAnaglyph.  An image is [nil, w, h, pix]: nil for a nil          *)
(* image.Image, else the bounds (0,0)-(w,h) and the colour <<r, g, b>> that *)
(* At(x, y).RGBA() returns for each <<x, y>>.                               *)
(***************************************************************************)
RedCyan == 0
CyanRed == 1
RedGreen == 2
GreenRed == 3
ErrInvalidImageCount == "anaglyph conversion only supports 2 images"
ErrInconsistentBounds == "anaglyph images must be the same size"
ErrUnsupportedColorType == "unsupported color type"

NilImage == [nil |-> TRUE, w |-> 0, h |-> 0, pix |-> << >>]

\* lgs, rgs: the weighted sum of the channels (in exact arithmetic), as uint16.
GrayScale(c) == ((229 * c[1] + 587 * c[2] + 144 * c[3]) \div 1000) % 65536

\* The color.RGBA64 c that the switch on ct builds from the pixels l and r;
\* alpha is 65535 in all of them.
AnaglyphColor(ct, l, r) ==
  IF ct = RedCyan THEN <<GrayScale(l), r[2], r[3]>>
  ELSE IF ct = CyanRed THEN <<GrayScale(r), l[2], l[3]>>
  ELSE IF ct = RedGreen THEN <<GrayScale(l), GrayScale(r), 65535 \div 2>>
  ELSE <<GrayScale(r), GrayScale(l), 65535 \div 2>>

\* Faulty variant: only too few images are refused.
WrongCountBelow(n) == n < 2
\* len(m.Image) != 2
WrongCount(n) == n # 2

\* m.ConvertToAnaglyph(ct) on the images m: [img |-> the image returned,
\* err |-> the error returned, reads |-> the number of calls of At made].
ConvertToAnaglyph(m, ct) ==
  IF WrongCount(Len(m))
  THEN [img |-> NilImage, err |-> ErrInvalidImageCount, reads |-> 0]
  ELSE LET left  == m[1]
           right == m[2]
       IN IF left.w # right.w \/ left.h # right.h
          THEN [img |-> NilImage, err |-> ErrInconsistentBounds, reads |-> 0]
          ELSE IF left.w * left.h = 0
          THEN [img |-> [nil |-> FALSE, w |-> left.w, h |-> left.h, pix |-> << >>],
                err |-> "nil", reads |-> 0]
          ELSE IF ct \notin {RedCyan, CyanRed, RedGreen, GreenRed}
          THEN [img |-> NilImage, err |-> ErrUnsupportedColorType, reads |-> 2]
          ELSE [img |-> [nil |-> FALSE, w |-> left.w, h |-> left.h,
                         pix |-> [q \in DOMAIN left.pix |->
                                    AnaglyphColor(ct, left.pix[q], right.pix[q])]],
                err |-> "nil", reads |-> 2 * left.w * left.h]

(***************************************************************************)
(* Inputs.                                                                 *)
(***************************************************************************)
MaxImages == 2      \* images in the MPO handed to EncodeAll
MaxCount == 3       \* elements of the offsets / sizes handed to buildMPFSegment
MaxBuf == 4         \* bytes of a hand-made buffer handed to DecodeAll

\* What may follow SOI in the output of the JPEG codec: nothing, a stuffed
\* 0xFF byte, an APP0 segment with length field 4 (a 2-byte payload), an APP0
\* marker with length field 9 (longer than the shortest frame holding it).
Headers ==
  { << >>,
    <<255, 0>>,
    <<255, 224, 0, 4, 74, 70>>,
    <<255, 224, 0, 9, 74>> }

\* Encoded lengths of a frame with header h: the shortest, and the lengths
\* 0xD8FF and 0xD9FF, whose little-endian bytes hold FF D8 and FF D9.
FrameLens(h) == {4 + Len(h), 55551, 55807}

\* A frame: SOI, the header, zero bytes up to the length, EOI.  It starts with
\* FF D8, ends with FF D9 and holds no other FF D8 or FF D9.
Frame(h, len) ==
  Cat(Cat(Cat(SOI, Bytes(h)), Zeros(len - 4 - Len(h))), EOI)

Frames == UNION {{Frame(h, len) : len \in FrameLens(h)} : h \in Headers}

\* What jpeg.Encode may return for an image: a frame, bytes that do not start
\* with SOI, or an error.
CodecOutputs ==
  {[err |-> FALSE, b |-> f] : f \in Frames}
    \cup {[err |-> FALSE, b |-> Bytes(<<0, 0>>)], [err |-> TRUE, b |-> NilBytes]}

\* uint32 values of the offsets and sizes handed to buildMPFSegment directly.
Values == {0, 16909060}
ValueSeqs == UNION {[1..k -> Values] : k \in 0..MaxCount}
\* Frame counts at which the segment reaches 65536 bytes and more.
BigCounts == {4092, 4093}

\* Hand-made buffers handed to DecodeAll.
RawBytes == {0, mpojpgMKR, mpojpgSOI, mpojpgEOI}
RawBuffers == {Bytes(q) : q \in UNION {[1..k -> RawBytes] : k \in 0..MaxBuf}}

\* Hand-made buffers built of whole markers: each piece is a zero byte, a lone
\* 0xFF, a start-of-image marker or an end-of-image marker.
MaxPieces == 4      \* pieces of a marker-built buffer handed to DecodeAll
Pieces == {<<0>>, <<mpojpgMKR>>, <<mpojpgMKR, mpojpgSOI>>, <<mpojpgMKR, mpojpgEOI>>}
RECURSIVE Join(_)
Join(ps) == IF ps = << >> THEN Zeros(0) ELSE Cat(Bytes(Head(ps)), Join(Tail(ps)))
MarkerBuffers == {Join(ps) : ps \in UNION {[1..k -> Pieces] : k \in 0..MaxPieces}}

\* A buffer of as many end-of-image markers as depth has values: the last one
\* brings depth back to 0.
DepthValues == 256
Repeat(piece, k) ==
  [n |-> 2 * k, m |-> [i \in 0..(2 * k - 1) |-> piece[(i % 2) + 1]]]
WrapBuffers == {Repeat(<<mpojpgMKR, mpojpgEOI>>, DepthValues)}

\* Buffers with APP2 segments.  A segment is FF E2, a big-endian length field,
\* a 4-byte tag ("NINT" or "MPF\0") and the bytes 1, 2, ... of a payload; the
\* length fields are 1 (less than 2), 4 (shorter than the tag), 6 (no
\* payload), 7, 8 and 16 (longer than the buffers).  A buffer is an optional
\* SOI, a segment, and then nothing, an EOI, or a "NINT" segment of length 7
\* with the payload 9 and an EOI.
MaxPayload == 2     \* payload bytes that follow the tag of a segment
SegLens == {1, 4, 6, 7, 8, 16}
Tags == {<<78, 73, 78, 84>>, <<77, 80, 70, 0>>}
Segment(l, tag, n) == <<mpojpgMKR, mpojpgAPP2, 0, l>> \o tag \o [i \in 1..n |-> i]
Segments ==
  {Segment(l, tag, n) : l \in SegLens, tag \in Tags, n \in 0..MaxPayload}
Trailers ==
  { << >>, <<mpojpgMKR, mpojpgEOI>>,
    Segment(7, <<78, 73, 78, 84>>, 0) \o <<9, mpojpgMKR, mpojpgEOI>> }
NintendoBuffers ==
  {Bytes(pre \o seg \o post) :
     pre \in {<< >>, <<mpojpgMKR, mpojpgSOI>>}, seg \in Segments, post \in Trailers}

\* Decoded images handed to ConvertToAnaglyph: without pixels, of one pixel
\* (red, or cyan) and of two pixels.
Red == <<65535, 0, 0>>
Cyan == <<0, 65535, 65535>>
Picture(w, h, colour) ==
  [nil |-> FALSE, w |-> w, h |-> h,
   pix |-> [q \in (0..(w - 1)) \X (0..(h - 1)) |-> IF q[1] = 0 THEN colour ELSE Red]]
Pictures ==
  {Picture(0, 0, Red), Picture(1, 1, Red), Picture(1, 1, Cyan), Picture(2, 1, Cyan)}
ColorTypes == {RedCyan, CyanRed, RedGreen, GreenRed, GreenRed + 1}

(***************************************************************************)
(* State: the last call (op), the result of the last EncodeAll (enc), of   *)
(* the last direct buildMPFSegment (mpf), the bytes last handed to         *)
(* DecodeAll (data) and its result (dec), the result of the last Decode or *)
(* DecodeConfig (res), the parseNintendoMetadata under way (ext), the last *)
(* ConvertToAnaglyph (ana).  The calls share nothing, so a                 *)
(* behaviour is one call from the initial state, or an EncodeAll and then  *)
(* a DecodeAll of what it wrote.                                           *)
(***************************************************************************)
VARIABLES op, enc, mpf, data, dec, res, ext, ana

vars == <<op, enc, mpf, data, dec, res, ext, ana>>

NoMpf == [offsets |-> << >>, sizes |-> << >>, data |-> NilBytes, err |-> "nil"]
NoDec ==
  [scan |-> [loc |-> 0, depth |-> 0, imgStart |-> 0, sectReaders |-> << >>],
   Image |-> << >>, Nintendo |-> [kind |-> "nil", raw |-> NilBytes], err |-> "nil"]
NoRes == [val |-> NilBytes, err |-> "nil"]
NoAna == [m |-> << >>, ct |-> RedCyan, img |-> NilImage, err |-> "nil", reads |-> 0]

Init ==
  /\ op = "none"
  /\ enc = NoEnc
  /\ mpf = NoMpf
  /\ data = Zeros(0)
  /\ dec = NoDec
  /\ res = NoRes
  /\ ext = NintendoStart
  /\ ana = NoAna

\* EncodeAll(w, m, o) with w an empty buffer.
CallEncodeAll ==
  /\ op = "none"
  /\ \E n \in 0..MaxImages : \E e \in [1..n -> CodecOutputs] :
       /\ op' = "EncodeAll"
       /\ enc' = EncodeAll(e)
       /\ mpf' = NoMpf
       /\ ext' = NintendoStart
       /\ ana' = NoAna
       /\ data' = Zeros(0)
       /\ dec' = NoDec
       /\ res' = NoRes

\* buildMPFSegment(offsets, sizes) called directly.
CallBuildMPFSegment ==
  /\ op = "none"
  /\ \E offsets \in ValueSeqs, sizes \in ValueSeqs :
       /\ op' = "buildMPFSegment"
       /\ mpf' = [offsets |-> offsets, sizes |-> sizes,
                  data |-> buildMPFSegment(offsets, sizes).data,
                  err |-> buildMPFSegment(offsets, sizes).err]
       /\ enc' = NoEnc
       /\ data' = Zeros(0)
       /\ dec' = NoDec
       /\ res' = NoRes
       /\ ext' = NintendoStart
       /\ ana' = NoAna

\* buildMPFSegment for a large number of frames.
CallBuildMPFSegmentBig ==
  /\ op = "none"
  /\ \E n \in BigCounts :
       LET zeros == [i \in 1..n |-> 0]
       IN /\ op' = "buildMPFSegment"
          /\ mpf' = [offsets |-> zeros, sizes |-> zeros,
                     data |-> buildMPFSegment(zeros, zeros).data,
                     err |-> buildMPFSegment(zeros, zeros).err]
          /\ enc' = NoEnc
          /\ data' = Zeros(0)
          /\ dec' = NoDec
          /\ res' = NoRes
          /\ ext' = NintendoStart
          /\ ana' = NoAna

\* DecodeAll on the bytes the last EncodeAll wrote.
CallDecodeAllWritten ==
  /\ op = "EncodeAll"
  /\ enc.err = "nil"
  /\ \E codecOK \in BOOLEAN :
       /\ op' = "DecodeAll"
       /\ data' = enc.w
       /\ dec' = DecodeAll(enc.w, codecOK)
  /\ UNCHANGED <<enc, mpf, res, ext, ana>>

\* DecodeAll on a hand-made buffer.
CallDecodeAllRaw ==
  /\ op = "none"
  /\ \E buf \in RawBuffers \cup MarkerBuffers \cup NintendoBuffers, codecOK \in BOOLEAN :
       /\ op' = "DecodeAll"
       /\ data' = buf
       /\ dec' = DecodeAll(buf, codecOK)
       /\ enc' = NoEnc
       /\ mpf' = NoMpf
       /\ ext' = NintendoStart
       /\ ana' = NoAna
       /\ res' = NoRes

\* Decode on a hand-made buffer.
CallDecode ==
  /\ op = "none"
  /\ \E buf \in RawBuffers \cup MarkerBuffers, codecOK \in BOOLEAN :
       /\ op' = "Decode"
       /\ data' = buf
       /\ dec' = DecodeAll(buf, codecOK)
       /\ res' = Decode(buf, codecOK)
       /\ enc' = NoEnc
       /\ mpf' = NoMpf
       /\ ext' = NintendoStart
       /\ ana' = NoAna

\* DecodeConfig on a hand-made buffer.
CallDecodeConfig ==
  /\ op = "none"
  /\ \E buf \in RawBuffers \cup MarkerBuffers, codecOK \in BOOLEAN :
       /\ op' = "DecodeConfig"
       /\ data' = buf
       /\ dec' = DecodeAll(buf, codecOK)
       /\ res' = DecodeConfig(buf, codecOK)
       /\ enc' = NoEnc
       /\ mpf' = NoMpf
       /\ ext' = NintendoStart
       /\ ana' = NoAna

\* DecodeAll entered on a hand-made buffer: the scan loop is about to start.
CallDecodeAllScan ==
  /\ op = "none"
  /\ \E buf \in RawBuffers \cup MarkerBuffers \cup WrapBuffers :
       /\ op' = "scan"
       /\ data' = buf
       /\ dec' = NoDec
       /\ UNCHANGED <<enc, mpf, res, ext, ana>>

\* The next iteration of the scan loop of DecodeAll.
ScanLoopIteration ==
  /\ op = "scan"
  /\ dec.scan.loc < BLen(data)
  /\ dec' = [dec EXCEPT !.scan = ScanIteration(data, dec.scan)]
  /\ UNCHANGED <<op, enc, mpf, data, res, ext, ana>>

\* parseNintendoMetadata(data) entered on a hand-made buffer.
CallParseNintendoMetadata ==
  /\ op = "none"
  /\ \E buf \in NintendoBuffers \cup MarkerBuffers :
       /\ op' = "parseNintendoMetadata"
       /\ data' = buf
       /\ ext' = NintendoStart
       /\ ana' = NoAna
       /\ UNCHANGED <<enc, mpf, dec, res>>

\* The next loop test of parseNintendoMetadata and the pass of the body that
\* follows it.  (No more than len(data) + 1 passes are followed.)
NintendoLoopIteration ==
  /\ op = "parseNintendoMetadata"
  /\ ext.kind = "loop"
  /\ ext.iters <= BLen(data)
  /\ ext' = NintendoIteration(data, ext)
  /\ UNCHANGED <<op, enc, mpf, data, dec, res, ana>>

\* m.ConvertToAnaglyph(ct) on an MPO of decoded images.
CallConvertToAnaglyph ==
  /\ op = "none"
  /\ \E n \in 0..(MaxImages + 1) : \E m \in [1..n -> Pictures], ct \in ColorTypes :
       /\ op' = "ConvertToAnaglyph"
       /\ ana' = [m |-> m, ct |-> ct,
                  img |-> ConvertToAnaglyph(m, ct).img,
                  err |-> ConvertToAnaglyph(m, ct).err,
                  reads |-> ConvertToAnaglyph(m, ct).reads]
       /\ UNCHANGED <<enc, mpf, data, dec, res, ext>>

Next ==
  \/ CallEncodeAll
  \/ CallBuildMPFSegment
  \/ CallBuildMPFSegmentBig
  \/ CallDecodeAllWritten
  \/ CallDecodeAllRaw
  \/ CallDecode
  \/ CallDecodeConfig
  \/ CallDecodeAllScan
  \/ ScanLoopIteration
  \/ CallParseNintendoMetadata
  \/ NintendoLoopIteration
  \/ CallConvertToAnaglyph

Spec == Init /\ [][Next]_vars

(***************************************************************************)
(* Reading a segment and an output stream back, as a reader of the format  *)
(* does.                                                                   *)
(***************************************************************************)

\* The index of the first APP2 marker of out that is followed by a length field
\* and "MPF\0".
MPFStart(out) ==
  LET S == {q \in DOMAIN out.m :
              /\ out.m[q] = 255 /\ At(out, q + 1) = 226
              /\ At(out, q + 4) = 77 /\ At(out, q + 5) = 80
              /\ At(out, q + 6) = 70 /\ At(out, q + 7) = 0}
  IN CHOOSE q \in S : \A r \in S : q <= r

\* The index of the byte-order marker "II" of the segment that starts at q.
EndianIndex(q) == q + 8

\* The value field of the directory entry with the given tag, in the IFD of the
\* segment of out that starts at q.
DirValue(out, q, tag) ==
  LET ifd   == EndianIndex(q) + RdLE32(out, EndianIndex(q) + 4)
      count == RdLE16(out, ifd)
      k     == CHOOSE j \in 0..(count - 1) : RdLE16(out, ifd + 2 + 12 * j) = tag
  IN RdLE32(out, ifd + 2 + 12 * k + 8)

\* The index in out of field f (0 attribute, 4 size, 8 offset, 12 and 14 the
\* dependencies) of MP entry i (from 0) of the segment that starts at q.
EntryField(out, q, i, f) ==
  EndianIndex(q) + DirValue(out, q, tagMPImageList) + 16 * i + f

\* The sum of the lengths of bufs[i], bufs[i+1], ...
RECURSIVE TailLen(_, _)
TailLen(bufs, i) ==
  IF i > Len(bufs) THEN 0 ELSE BLen(bufs[i]) + TailLen(bufs, i + 1)

\* EncodeAll returned nil: enc.w is an MPO of enc.images frames.
Written == op \in {"EncodeAll", "DecodeAll"} /\ enc.images > 0 /\ enc.err = "nil"

\* The index in enc.w at which frame i (from 1) starts, and the one after its
\* last byte: frames 2.. are the tail of the stream, frame 1 all that is before.
FrameFirst(i) == IF i = 1 THEN 0 ELSE BLen(enc.w) - TailLen(enc.bufs, i)
FrameLast(i) == BLen(enc.w) - TailLen(enc.bufs, i + 1)

\* buildMPFSegment was called directly and returned a segment.
Built == op = "buildMPFSegment" /\ mpf.err = "nil"

(***************************************************************************)
(* Properties.                                                             *)
(***************************************************************************)

\* C1: the frame scanner of DecodeAll, run over the bytes EncodeAll wrote for N
\* frames, yields exactly N section readers, the k-th starting where frame k
\* starts in the stream and closed right after frame k's last byte.
C1_RoundTripFrames ==
  (op = "DecodeAll" /\ Written) =>
     /\ data = enc.w
     /\ Len(dec.scan.sectReaders) = enc.images
     /\ \A k \in 1..enc.images :
          /\ k <= Len(dec.scan.sectReaders)
          /\ dec.scan.sectReaders[k].off = FrameFirst(k)
          /\ dec.scan.sectReaders[k].n = FrameLast(k)

\* C2: in the stream EncodeAll wrote, for every frame i >= 1 (from 0) the
\* offset field of MP entry i plus the index of the segment's "II" is the index
\* at which frame i starts, and the bytes of frame i are there.
C2_OffsetsFromEndian ==
  Written =>
    \A i \in 1..(enc.images - 1) :
      LET q     == MPFStart(enc.w)
          start == RdLE32(enc.w, EntryField(enc.w, q, i, 8)) + EndianIndex(q)
      IN /\ At(enc.w, EndianIndex(q)) = 73 /\ At(enc.w, EndianIndex(q) + 1) = 73
         /\ start = FrameFirst(i + 1)
         /\ Slice(enc.w, start, start + BLen(enc.bufs[i + 1])) = enc.bufs[i + 1]

\* C2 witness: EncodeAll wrote two frames, the first with a JFIF header found.
C2_Witness ==
  Written /\ op = "EncodeAll" /\ enc.images = 2 /\ enc.jfifLen > 0

\* C3: in the segment of every stream EncodeAll wrote, the offset field of the
\* first MP entry is 0.
C3_FirstOffsetZero ==
  Written => RdLE32(enc.w, EntryField(enc.w, MPFStart(enc.w), 0, 8)) = 0

\* C3 witness: two frames of different sizes written, the first with a JFIF
\* header.
C3_Witness ==
  /\ Written /\ op = "EncodeAll" /\ enc.images = 2 /\ enc.jfifLen > 0
  /\ enc.sizes[1] # enc.sizes[2]

\* C4: the big-endian 16-bit value at bytes [2,3] of a segment buildMPFSegment
\* returned is len(segment) - 2, for any frame count.
C4_LengthField ==
  Built => RdBE16(mpf.data, 2) = BLen(mpf.data) - 2

\* C5 as stated: the image-list pointer (tag 0xB002) of a built segment is 46.
C5_PointerIs46 ==
  Built => DirValue(mpf.data, 0, tagMPImageList) = 46

\* C5 amended: the image-list pointer of a built segment is
\* 8 + 2 + 3*12 + 4 = 50, for any frame count.
C5_PointerIs50 ==
  Built => DirValue(mpf.data, 0, tagMPImageList) = 8 + 2 + 3 * 12 + 4

\* C5 witness: a segment built for three frames.
C5_Witness == Built /\ Len(mpf.offsets) = 3

\* C6: the image-list pointer of a built segment is the distance from "II" to
\* the first byte of the entry array, the array being the last 16 * n bytes.
C6_PointerIsDistance ==
  Built =>
    LET n     == Len(mpf.offsets)
        array == BLen(mpf.data) - 16 * n
    IN /\ At(mpf.data, EndianIndex(0)) = 73 /\ At(mpf.data, EndianIndex(0) + 1) = 73
       /\ DirValue(mpf.data, 0, tagMPImageList) = array - EndianIndex(0)
       /\ n > 0 => RdLE32(mpf.data, array) = mpTypeBaseline + flagRepresentative

\* C6 witness: a segment built for two frames with non-zero fields.
C6_Witness ==
  Built /\ Len(mpf.offsets) = 2 /\ mpf.sizes[1] # 0 /\ mpf.offsets[2] # 0

\* C7: buildMPFSegment returns an error and no bytes when the counts of
\* offsets and sizes differ, and no error when they are equal.
C7_LengthMismatch ==
  op = "buildMPFSegment" =>
    /\ Len(mpf.offsets) # Len(mpf.sizes) => mpf.err # "nil" /\ mpf.data = NilBytes
    /\ Len(mpf.offsets) = Len(mpf.sizes) => mpf.err = "nil"

\* C7 witness: buildMPFSegment called with 2 offsets and 3 sizes.
C7_Witness ==
  op = "buildMPFSegment" /\ Len(mpf.offsets) = 2 /\ Len(mpf.sizes) = 3

\* C8: a built segment for n frames holds n in the image-count tag and exactly
\* n 16-byte entries after the directory; entry i carries sizes[i], offsets[i],
\* zero dependencies, and the attribute 0x00030000, with 0x20000000 set iff i = 0.
C8_EntryArray ==
  Built =>
    LET n == Len(mpf.offsets)
    IN /\ DirValue(mpf.data, 0, tagNumImages) = n
       /\ BLen(mpf.data) = EntryField(mpf.data, 0, n, 0)
       /\ \A i \in 0..(n - 1) :
            /\ RdLE32(mpf.data, EntryField(mpf.data, 0, i, 0))
                 = (IF i = 0 THEN 536870912 + 196608 ELSE 196608)
            /\ RdLE32(mpf.data, EntryField(mpf.data, 0, i, 4)) = mpf.sizes[i + 1]
            /\ RdLE32(mpf.data, EntryField(mpf.data, 0, i, 8)) = mpf.offsets[i + 1]
            /\ RdLE16(mpf.data, EntryField(mpf.data, 0, i, 12)) = 0
            /\ RdLE16(mpf.data, EntryField(mpf.data, 0, i, 14)) = 0

\* C8 witness: a segment built for three frames whose sizes and offsets differ.
C8_Witness ==
  /\ Built /\ Len(mpf.offsets) = 3
  /\ mpf.sizes[2] # mpf.offsets[2] /\ mpf.sizes[3] # mpf.sizes[2]

\* C9: EncodeAll on an MPO with no image returns the no-images error and has
\* written nothing.
C9_NoImages ==
  (op = "EncodeAll" /\ enc.images = 0) =>
     enc.err = "no images to encode" /\ BLen(enc.w) = 0

\* C9 witness: EncodeAll was called with no image.
C9_Witness == op = "EncodeAll" /\ enc.images = 0 /\ enc.err # "nil"

\* The length of the complete APP0 segment that follows SOI in the frame first:
\* its 2-byte marker, then as many bytes as its length field says; 0 when the
\* frame has no such segment.
JFIFHeaderLen(first) ==
  LET l == RdBE16(first, 4)
  IN IF /\ BLen(first) >= 6 /\ At(first, 2) = 255 /\ At(first, 3) = 224
        /\ l >= 2 /\ 4 + l <= BLen(first)
     THEN 2 + l ELSE 0

\* C10: the stream EncodeAll wrote is the SOI of frame 1, the JFIF header of
\* frame 1 if it has one, the MPF segment, the remaining bytes of frame 1, then
\* frames 2..N; without the segment it is the concatenation of the frames, and
\* its length is the sum of the frame lengths plus the segment length.
C10_StreamOrder ==
  Written =>
    LET first == enc.bufs[1]
        h     == JFIFHeaderLen(first)
        q     == MPFStart(enc.w)
        end   == q + BLen(enc.mpfSeg)
    IN /\ enc.w = WriteFrom(Cat(Cat(Slice(first, 0, 2 + h), enc.mpfSeg),
                                Slice(first, 2 + h, BLen(first))), enc.bufs, 2)
       /\ Slice(enc.w, q, end) = enc.mpfSeg
       /\ Cat(Slice(enc.w, 0, q), Slice(enc.w, end, BLen(enc.w)))
            = WriteFrom(Zeros(0), enc.bufs, 1)
       /\ BLen(enc.w) = TailLen(enc.bufs, 1) + BLen(enc.mpfSeg)

\* C11: in the stream EncodeAll wrote, the MPF segment starts right after the
\* last byte of the complete APP0 segment that follows the SOI of the first
\* frame, and at byte 2 when the first frame has no such segment.
C11_MPFAfterJFIF ==
  Written => MPFStart(enc.w) = 2 + JFIFHeaderLen(enc.bufs[1])

\* A complete frame FF D8 FF D9, then a start-of-image marker, then bytes
\* among which no end-of-image code: the second frame is never closed.
FrameThenOpenFrame(d) ==
  /\ BLen(d) >= 6
  /\ Slice(d, 0, 6) = Cat(Cat(SOI, EOI), SOI)
  /\ \A i \in 6..(BLen(d) - 1) : At(d, i) # mpojpgEOI

\* C12: on a buffer made of one complete frame and then a start-of-image
\* marker that is never closed, the scanner yields exactly one range, that of
\* the complete frame, and no error; on any buffer every range the scanner
\* yields was closed by an end-of-image marker inside the buffer, never by the
\* end of the buffer.
C12_Truncation ==
  op = "DecodeAll" =>
    /\ FrameThenOpenFrame(data) =>
         /\ dec.scan.sectReaders = <<[off |-> 0, n |-> 4]>>
         /\ dec.scan.depth > 0
         /\ dec.err \in {"nil", "jpeg: decode failed"}
         /\ dec.err = "nil" => dec.Image = <<Cat(SOI, EOI)>>
    /\ \A k \in 1..Len(dec.scan.sectReaders) :
         LET e == dec.scan.sectReaders[k].n
         IN /\ 2 <= e /\ e <= BLen(data)
            /\ Slice(data, e - 2, e) = EOI

\* C12 witness: DecodeAll returned nil on FF D8 FF D9 FF D8 00.
C12_Witness ==
  /\ op = "DecodeAll" /\ dec.err = "nil"
  /\ data = Bytes(<<255, 216, 255, 217, 255, 216, 0>>)

\* C13: for every range the scanner closed, with start s and close position
\* e, the bytes handed to the JPEG codec are exactly data[s, e); the sections
\* of distinct frames do not overlap and their starts strictly increase.
C13_SectionIsRange ==
  (op = "DecodeAll" /\ dec.err = "nil") =>
    /\ Len(dec.Image) = Len(dec.scan.sectReaders)
    /\ \A k \in 1..Len(dec.scan.sectReaders) :
         /\ k <= Len(dec.Image)
         /\ dec.Image[k] = Slice(data, dec.scan.sectReaders[k].off,
                                 dec.scan.sectReaders[k].n)
         /\ \A j \in 1..(k - 1) :
              /\ dec.scan.sectReaders[j].off < dec.scan.sectReaders[k].off
              /\ dec.scan.sectReaders[j].off + BLen(dec.Image[j])
                   <= dec.scan.sectReaders[k].off

\* Decode or DecodeConfig was called.
FirstImageCall == op \in {"Decode", "DecodeConfig"}

\* C14: when the scanner finds no complete frame in the buffer, DecodeAll,
\* Decode and DecodeConfig return the no-images error.
C14_ZeroFrames ==
  Len(dec.scan.sectReaders) = 0 =>
    /\ op = "DecodeAll" => dec.err = ErrNoImages
    /\ FirstImageCall => res.err = ErrNoImages

\* The bytes of d from index q on are FF E2, two bytes of length, "NINT".
NINTAt(d, q) ==
  /\ q + 8 <= BLen(d)
  /\ Slice(d, q, q + 2) = Bytes(<<255, 226>>)
  /\ Slice(d, q + 4, q + 8) = Bytes(<<78, 73, 78, 84>>)

\* The loop of parseNintendoMetadata is about to run its body with the cursor
\* on an APP2 marker that is followed by a length field and "NINT".
ScanReachesNINT ==
  /\ op = "parseNintendoMetadata" /\ ext.kind = "loop"
  /\ ext.pos < BLen(data) - 8
  /\ NINTAt(data, ext.pos)

\* C15: whenever the scan reaches FF E2, a length L and "NINT" at
\* pos, whatever L is, parseNintendoMetadata returns the L - 6 bytes
\* data[pos+8, pos+2+L).
C15_MatchAnyLength ==
  [][ScanReachesNINT =>
       LET L == RdBE16(data, ext.pos + 2)
       IN /\ ext'.kind = "raw"
          /\ BLen(ext'.raw) = L - 6
          /\ ext'.raw = Slice(data, ext.pos + 8, ext.pos + 2 + L)]_vars

\* The well-formed case: whenever the scan reaches FF E2, a length L with
\* 6 <= L and pos + 2 + L <= len(data), and "NINT" at pos, parseNintendoMetadata
\* returns the L - 6 bytes data[pos+8, pos+2+L).
WellFormedMatch ==
  [][(/\ ScanReachesNINT
      /\ 6 <= RdBE16(data, ext.pos + 2)
      /\ ext.pos + 2 + RdBE16(data, ext.pos + 2) <= BLen(data)) =>
       LET L == RdBE16(data, ext.pos + 2)
       IN /\ ext'.kind = "raw"
          /\ BLen(ext'.raw) = L - 6
          /\ ext'.raw = Slice(data, ext.pos + 8, ext.pos + 2 + L)]_vars

\* parseNintendoMetadata skipped an "MPF\0" segment at 2 and returned the one
\* payload byte of the "NINT" segment at 12.
SecondSegmentMatched ==
  /\ op = "parseNintendoMetadata" /\ ext.kind = "raw"
  /\ ext.pos = 12 /\ ext.raw = Bytes(<<9>>)

\* C16: whenever the scan reaches FF E2, a length L and "NINT" at pos and
\* the declared end pos + 2 + L is past the end of the buffer,
\* parseNintendoMetadata returns the bytes from pos + 8 to the end of the buffer.
C16_OverrunClipped ==
  [][(ScanReachesNINT /\ ext.pos + 2 + RdBE16(data, ext.pos + 2) > BLen(data)) =>
       /\ ext'.kind = "raw"
       /\ ext'.raw = Slice(data, ext.pos + 8, BLen(data))]_vars

\* No APP2 marker of d is followed by a length field and "NINT".
NoNINT(d) == \A q \in DOMAIN d.m : d.m[q] = 255 => ~NINTAt(d, q)

\* C17: on a buffer in which no APP2 marker is followed by a length field and
\* "NINT", written streams among them, DecodeAll returns with the Nintendo
\* field nil (not a placeholder without bytes) and with no error other than
\* the JPEG codec's, which needs a frame to decode.
C17_Absence ==
  (op = "DecodeAll" /\ NoNINT(data)) =>
    /\ dec.Nintendo = [kind |-> "nil", raw |-> NilBytes]
    /\ dec.err \in {"nil", "jpeg: decode failed"}
    /\ dec.err = "jpeg: decode failed" => Len(dec.scan.sectReaders) > 0

\* C17 witness: DecodeAll returned nil on a written stream of two frames, whose
\* APP2 segment is the MPF one.
C17_Witness ==
  /\ op = "DecodeAll" /\ Written /\ enc.images = 2 /\ data = enc.w
  /\ dec.err = "nil" /\ Len(dec.Image) = 2
  /\ NoNINT(data) /\ dec.Nintendo.kind = "nil"

\* C18: ConvertToAnaglyph on an MPO whose number of images is not 2 returns
\* the image-count error and a nil image, and has read no pixel.
C18_AnaglyphArity ==
  (op = "ConvertToAnaglyph" /\ Len(ana.m) # 2) =>
    /\ ana.err = ErrInvalidImageCount
    /\ ana.img = NilImage
    /\ ana.reads = 0

\* C18 witness: ConvertToAnaglyph returned the error for an MPO of one image
\* that has a pixel.
C18_Witness ==
  /\ op = "ConvertToAnaglyph" /\ Len(ana.m) = 1 /\ ana.err = ErrInvalidImageCount
  /\ ana.m[1].w * ana.m[1].h > 0

\* The scan loop of DecodeAll is about to read 0xFF and then a byte that is
\* neither the start-of-image nor the end-of-image code.
AtLoneMarker ==
  /\ op = "scan"
  /\ dec.scan.loc + 1 < BLen(data)
  /\ At(data, dec.scan.loc) = 255
  /\ At(data, dec.scan.loc + 1) \notin {216, 217}

\* C19: an iteration of the scanner that reads 0xFF and then a byte that is
\* neither D8 nor D9 consumes both bytes, leaves depth, the start of the open
\* frame and the ranges as they are and raises no error; the next iteration
\* reads the byte after the lookahead byte.
C19_LoneMarker ==
  [][AtLoneMarker =>
       /\ dec'.scan.loc = dec.scan.loc + 2
       /\ dec'.scan.depth = dec.scan.depth
       /\ dec'.scan.imgStart = dec.scan.imgStart
       /\ dec'.scan.sectReaders = dec.scan.sectReaders
       /\ dec'.err = "nil"
       /\ op' = "scan"]_vars

\* C19 witness: on FF FF D8 FF D9 the scanner has read FF FF and is about to
\* read D8, not as a marker code: no frame is open.
C19_Witness ==
  /\ op = "scan" /\ data = Bytes(<<255, 255, 216, 255, 217>>)
  /\ dec.scan.loc = 2 /\ dec.scan.depth = 0

\* The declared length at q is unusable: less than 2, or the segment would
\* end after the buffer.
UnusableLength(d, q) ==
  RdBE16(d, q + 2) < 2 \/ q + 2 + RdBE16(d, q + 2) > BLen(d)

\* C20: every iteration of the loop of parseNintendoMetadata after which the
\* loop goes on has moved the cursor forward: by 1 on a byte that does not
\* start an APP2 marker or before an unusable declared length, by 2 + the
\* declared length on a tag mismatch; and the loop makes no more than
\* len(data) iterations.
C20_ForwardProgress ==
  /\ [](op = "parseNintendoMetadata" => ext.iters <= BLen(data))
  /\ [][(/\ op = "parseNintendoMetadata" /\ ext.kind = "loop"
         /\ ext'.kind = "loop" /\ ext'.iters = ext.iters + 1) =>
          /\ ext'.pos > ext.pos
          /\ ext'.pos - ext.pos =
               IF Slice(data, ext.pos, ext.pos + 2) # Bytes(<<255, 226>>)
                  \/ UnusableLength(data, ext.pos)
               THEN 1
               ELSE 2 + RdBE16(data, ext.pos + 2)]_vars

\* C20 witness: on FF D8, an "MPF\0" segment of declared length 8 and a "NINT"
\* segment, the loop returned in its 4th iteration with the cursor on 12: two
\* steps of 1, one step of 2 + 8.
C20_Witness ==
  /\ op = "parseNintendoMetadata" /\ ext.kind = "raw"
  /\ ext.pos = 12 /\ ext.iters = 4 /\ RdBE16(data, 4) = 8

\* The number of markers FF code met when d[i, upto) is read two bytes at a
\* time after each 0xFF and one byte at a time otherwise.
RECURSIVE Recognised(_, _, _, _)
Recognised(d, i, upto, code) ==
  IF i >= upto THEN 0
  ELSE IF At(d, i) # 255 THEN Recognised(d, i + 1, upto, code)
  ELSE IF i + 1 >= BLen(d) THEN 0
  ELSE (IF At(d, i + 1) = code THEN 1 ELSE 0) + Recognised(d, i + 2, upto, code)

\* C21: after every iteration of the scanner, depth is the number of
\* start-of-image markers minus the number of end-of-image markers read so
\* far, never below 0; and on FF D9 FF D8 FF D9, an end-of-image marker at
\* depth 0 and then a complete frame, DecodeAll reports that frame.
C21_DepthIntegrity ==
  /\ op = "scan" =>
       /\ dec.scan.depth = Recognised(data, 0, dec.scan.loc, 216)
                             - Recognised(data, 0, dec.scan.loc, 217)
       /\ dec.scan.depth < 128
  /\ (op = "DecodeAll" /\ data = Bytes(<<255, 217, 255, 216, 255, 217>>)) =>
       dec.scan.sectReaders = <<[off |-> 2, n |-> 6]>>

\* C22: every range [s, e) the scanner has emitted has s + 4 <= e, starts
\* with FF D8 and ends with FF D9.
C22_RangeWellFormed ==
  op \in {"scan", "DecodeAll"} =>
    \A k \in 1..Len(dec.scan.sectReaders) :
      LET s == dec.scan.sectReaders[k].off
          e == dec.scan.sectReaders[k].n
      IN /\ s + 4 <= e
         /\ Slice(data, s, s + 2) = SOI
         /\ Slice(data, e - 2, e) = EOI

\* C23: in the stream EncodeAll wrote, the size field of MP entry i is the
\* number of bytes frame i takes in the stream, from its start-of-image
\* marker through its end-of-image marker; for the first frame that span holds
\* the MPF segment.
C23_EntrySizes ==
  Written =>
    \A i \in 0..(enc.images - 1) :
      RdLE32(enc.w, EntryField(enc.w, MPFStart(enc.w), i, 4))
        = FrameLast(i + 1) - FrameFirst(i + 1)

\* C24: on every buffer parseNintendoMetadata, called directly or by
\* DecodeAll, ends without a runtime failure, with nil or with a payload of
\* data[pos+8, ...) inside the buffer.
C24_Totality ==
  /\ op = "parseNintendoMetadata" =>
       /\ ext.kind \in {"loop", "nil", "raw"}
       /\ ext.kind = "raw" =>
            /\ ext.pos + 8 + BLen(ext.raw) <= BLen(data)
            /\ ext.raw = Slice(data, ext.pos + 8, ext.pos + 8 + BLen(ext.raw))
  /\ op = "DecodeAll" => dec.err # "panic"

====
